---- MODULE Spec2Model ----
(***************************************************************************)
(* Model of model_training/functions.py: the CSV loader get_data, the      *)
(* model / objective_function / jac formulas and create_model, which       *)
(* converts the loaded mapping to float arrays and hands the residual      *)
(* function and the analytic Jacobian to scipy.optimize.least_squares.     *)
(*                                                                         *)
(* Numbers are exact rationals <<n, d>> in lowest terms with d > 0,        *)
(* extended with the IEEE-754 results of a division by zero:               *)
(* <<1, 0>> = +inf, <<-1, 0>> = -inf, <<0, 0>> = nan.  Rounding is not     *)
(* modelled.  np.float is the builtin float (NumPy before 1.24).           *)
(*                                                                         *)
(* least_squares is library code: its steps follow the trust-region        *)
(* reflective algorithm without bounds that the call at line 49 selects    *)
(* by default.  The linear algebra of the trust-region subproblem is not   *)
(* computed; the trial point is any point of a small grid within the       *)
(* radius.  The ftol and xtol exits need a relative change below 1e-8,     *)
(* which no step on the grid has, so the runs of the model end by the      *)
(* gradient test or by the evaluation cap.                                 *)
(***************************************************************************)
EXTENDS Integers, Sequences, FiniteSets, TLC

(***************************************************************************)
(* Bounds of the model.                                                    *)
(***************************************************************************)
\* data rows of the input file (after the header)
MaxRows == 2
\* least_squares allows 100 residual evaluations per parameter; the model
\* allows NfevPerParam of them
NfevPerParam == 2

(***************************************************************************)
(* Extended rational arithmetic (float64 without rounding).                *)
(***************************************************************************)
Abs(n) == IF n < 0 THEN -n ELSE n

Sgn(n) == IF n < 0 THEN -1 ELSE IF n > 0 THEN 1 ELSE 0

\* Euclid's algorithm
GCD(a, b) ==
    LET g[p \in Nat \X Nat] == IF p[2] = 0 THEN p[1] ELSE g[<<p[2], p[1] % p[2]>>]
    IN  g[<<a, b>>]

\* n/d in lowest terms with a positive denominator
Norm(n, d) ==
    LET op[p \in Int \X Int] ==
            IF p[2] = 0 THEN <<Sgn(p[1]), 0>>
            ELSE LET g == GCD(Abs(p[1]), Abs(p[2]))
                 IN  <<Sgn(p[2]) * (p[1] \div g), Abs(p[2]) \div g>>
    IN  op[<<n, d>>]

Num(n) == <<n, 1>>

nan == <<0, 0>>

isfinite(r) == r[2] > 0

Neg(r) == LET op[p \in Int \X Int] == <<-p[1], p[2]>> IN op[r]

\* The binary operations are applied through functions of the pair of
\* operands, so that each operand is evaluated once.
Q2 == (Int \X Int) \X (Int \X Int)

Add(r, s) ==
    LET op[p \in Q2] ==
            IF p[1][2] = 0 /\ p[2][2] = 0
            THEN (IF p[1][1] = p[2][1] THEN p[1] ELSE nan)
            ELSE Norm(p[1][1] * p[2][2] + p[2][1] * p[1][2], p[1][2] * p[2][2])
    IN  op[<<r, s>>]

Sub(r, s) == Add(r, Neg(s))

Mul(r, s) ==
    LET op[p \in Q2] == Norm(p[1][1] * p[2][1], p[1][2] * p[2][2])
    IN  op[<<r, s>>]

\* r / s as numpy computes it: x/0 is +-inf, 0/0 is nan, no exception
Div(r, s) ==
    LET op[p \in Q2] ==
            LET sg == IF p[2][1] < 0 THEN -1 ELSE 1
            IN  Norm(sg * p[1][1] * p[2][2], p[1][2] * Abs(p[2][1]))
    IN  op[<<r, s>>]

\* a/b < c/d for a, c >= 0 and b, d > 0, by the continued-fraction expansion
\* (no product is formed, so no intermediate value exceeds the operands)
LessPos(a, b, c, d) ==
    LET lt[q \in Nat \X Nat \X Nat \X Nat] ==
            IF q[1] \div q[2] # q[3] \div q[4] THEN q[1] \div q[2] < q[3] \div q[4]
            ELSE IF q[3] % q[4] = 0 THEN FALSE
            ELSE IF q[1] % q[2] = 0 THEN TRUE
            ELSE lt[<<q[4], q[3] % q[4], q[2], q[1] % q[2]>>]
    IN  lt[<<a, b, c, d>>]

\* r < s for finite r, s
Less(r, s) ==
    LET op[p \in Q2] ==
            IF p[1][1] < 0 /\ p[2][1] >= 0 THEN TRUE
            ELSE IF p[1][1] >= 0 /\ p[2][1] < 0 THEN FALSE
            ELSE IF p[1][1] >= 0
                 THEN LessPos(p[1][1], p[1][2], p[2][1], p[2][2])
            ELSE LessPos(-p[2][1], p[2][2], -p[1][1], p[1][2])
    IN  op[<<r, s>>]

\* v[1] + ... + v[Len(v)]
Sum(v) ==
    LET acc[k \in 0..Len(v)] == IF k = 0 THEN Num(0) ELSE Add(acc[k - 1], v[k])
    IN  acc[Len(v)]

\* numpy.dot of two vectors of equal length
Dot(u, v) == Sum([i \in 1..Len(u) |-> Mul(u[i], v[i])])

AllFinite(v) == \A i \in 1..Len(v) : isfinite(v[i])

(***************************************************************************)
(* float(): the conversion numpy applies to each field of a column.        *)
(* A field is the sequence of its characters.                              *)
(***************************************************************************)
Digits == <<"0", "1", "2", "3", "4", "5", "6", "7", "8", "9">>

IsDigit(c) == \E k \in 1..10 : Digits[k] = c

DigitVal(c) == (CHOOSE k \in 1..10 : Digits[k] = c) - 1

RECURSIVE IntVal(_)
IntVal(s) ==
    IF s = <<>> THEN 0
    ELSE 10 * IntVal(SubSeq(s, 1, Len(s) - 1)) + DigitVal(s[Len(s)])

RECURSIVE Pow10(_)
Pow10(k) == IF k = 0 THEN 1 ELSE 10 * Pow10(k - 1)

\* [ok |-> the field is a decimal literal, val |-> its value]
float(s) ==
    LET signed == s # <<>> /\ s[1] \in {"-", "+"}
        body   == IF signed THEN Tail(s) ELSE s
        dots   == {i \in 1..Len(body) : body[i] = "."}
        wellformed ==
            /\ \A i \in 1..Len(body) : IsDigit(body[i]) \/ body[i] = "."
            /\ Cardinality(dots) <= 1
            /\ Len(body) - Cardinality(dots) >= 1
    IN  IF ~wellformed THEN [ok |-> FALSE, val |-> nan]
        ELSE LET p    == IF dots = {} THEN Len(body) + 1
                         ELSE CHOOSE i \in dots : TRUE
                 ip   == SubSeq(body, 1, p - 1)
                 fp   == SubSeq(body, p + 1, Len(body))
                 mag  == Norm(IntVal(ip \o fp), Pow10(Len(fp)))
             IN  [ok |-> TRUE,
                  val |-> IF signed /\ s[1] = "-" THEN Neg(mag) ELSE mag]

\* np.array(column, dtype=np.float): every field converted, or ValueError
ArrayOk(col) == \A i \in 1..Len(col) : float(col[i]).ok

Array(col) == [i \in 1..Len(col) |-> float(col[i]).val]

(***************************************************************************)
(* model, objective_function, jac                                          *)
(*   param = <<a, b, d>>,  x = <<pressures, flow rates>>                   *)
(***************************************************************************)
\* one element of model(param, x)
modelAt(param, p, q) ==
    Add(Div(Mul(param[1], q), Sub(p, Mul(q, param[2]))), Mul(q, param[3]))

model(param, x) ==
    [i \in 1..Len(x[1]) |-> modelAt(param, x[1][i], x[2][i])]

\* element-wise difference of two arrays of equal length
VSub(u, v) == [i \in 1..Len(u) |-> Sub(u[i], v[i])]

\* the difference taken the wrong way round
objective_functionMut(param, x, y) == VSub(y, model(param, x))

objective_function(param, x, y) == VSub(model(param, x), y)

\* dF/db with the denominator not squared
jacRowMut(param, p, q) ==
    LET den == Sub(p, Mul(q, param[2]))
    IN  << Div(q, den),
           Div(Mul(Mul(q, q), param[1]), den),
           q >>

jacRow(param, p, q) ==
    LET den == Sub(p, Mul(q, param[2]))
    IN  << Div(q, den),
           Div(Mul(Mul(q, q), param[1]), Mul(den, den)),
           q >>

\* J allocated with len(x) columns
jacMut(param, x, y) ==
    [i \in 1..Len(x[1]) |->
        [j \in 1..Len(x) |-> jacRow(param, x[1][i], x[2][i])[j]]]

\* J has len(x[0]) rows and len(param) columns
jac(param, x, y) ==
    [i \in 1..Len(x[1]) |->
        [j \in 1..Len(param) |-> jacRow(param, x[1][i], x[2][i])[j]]]

(***************************************************************************)
(* Input files.  A file is the sequence of its csv rows, the header first; *)
(* a row is the sequence of its fields.                                    *)
(***************************************************************************)
Header == << <<"T">>, <<"Q">>, <<"J">> >>

PressureFields == { <<"-", "1">>, <<"0">>, <<"1">>, <<"x">> }

FlowFields == { <<"1", "0">> }

FluxFields == { <<"0", ".", "2">>, <<"x">> }

FullRows ==
    { <<p, q, y>> : p \in PressureFields, q \in FlowFields, y \in FluxFields }

\* rows with fewer than three fields: a blank line and a truncated row
RaggedRows == { <<>>, << <<"1">>, <<"1", "0">> >> }

Rows == FullRows \cup RaggedRows

RECURSIVE SeqsUpTo(_, _)
SeqsUpTo(S, n) ==
    IF n = 0 THEN { <<>> }
    ELSE LET shorter == SeqsUpTo(S, n - 1)
         IN  shorter \cup { Append(s, e) : s \in shorter, e \in S }

\* the empty file, and a header followed by at most MaxRows data rows
Files == { <<>> } \cup { <<Header>> \o rows : rows \in SeqsUpTo(Rows, MaxRows) }

(***************************************************************************)
(* Parameter vectors the solver may visit and the trust-region radius.     *)
(***************************************************************************)
\* initial_guesses = np.array([0.01, -0.1, 0.01])
initial_guesses == << <<1, 100>>, <<-1, 10>>, <<1, 100>> >>

\* the trial points of the trust-region subproblem are drawn from this grid
Grid ==
    { <<a, b, d>> : a \in { <<1, 100>>, <<1, 50>> },
                    b \in { <<-1, 10>>, <<0, 1>>, <<1, 10>> },
                    d \in { <<1, 100>>, <<1, 50>> } }

\* ||u - w||^2 in units of 1e-4 (the grid spacing squared), an integer
Norm2(u, w) ==
    LET c(j) == Mul(Sub(u[j], w[j]), Num(100))[1]
    IN  c(1) * c(1) + c(2) * c(2) + c(3) * c(3)

Zero3 == << <<0, 1>>, <<0, 1>>, <<0, 1>> >>

RECURSIVE Pow4(_)
Pow4(k) == IF k = 0 THEN 1 ELSE 4 * Pow4(k - 1)

\* The squared radius Delta^2 is n * 4^e units, kept as [n, e].
\* A step of squared length N fits when N <= n * 4^e.  The grid's steps have
\* N < 4^6, so below e = -6 only the step of length 0 (a step smaller than
\* the grid spacing) fits.
Fits(N, D) ==
    IF N = 0 THEN TRUE
    ELSE IF D.e >= 0 THEN N <= D.n * Pow4(D.e)
    ELSE D.e >= -6 /\ N * Pow4(-D.e) <= D.n

\* D1 < D2
RadiusLess(D1, D2) ==
    IF D1.n = D2.n THEN D1.e < D2.e
    ELSE LET m == IF D1.e < D2.e THEN D1.e ELSE D2.e
         IN  IF D1.e - m > 6 THEN FALSE
             ELSE IF D2.e - m > 6 THEN TRUE
             ELSE D1.n * Pow4(D1.e - m) < D2.n * Pow4(D2.e - m)

\* Delta = 0.25 * step_norm, a step of length 0 standing for a step on the
\* boundary of the region
Quarter(N, D) == IF N = 0 THEN [n |-> D.n, e |-> D.e - 2] ELSE [n |-> N, e |-> -2]

\* Delta = 2 * Delta
Double(D) == [n |-> D.n, e |-> D.e + 1]

\* step_norm > 0.95 * Delta
BoundHit(N, D) ==
    /\ N > 0
    /\ D.e >= 0
    /\ 10000 * N > 9025 * D.n * Pow4(D.e)

\* max_nfev = x0.size * 100 in least_squares
max_nfev == Len(initial_guesses) * NfevPerParam

\* gtol = 1e-8
gtol == <<1, 100000000>>

\* 0.5 * np.dot(f, f)
HalfSumSq(f) == Mul(<<1, 2>>, Dot(f, f))

\* compute_grad: J^T f
Grad(J, f) ==
    [j \in 1..3 |-> Sum([i \in 1..Len(f) |-> Mul(J[i][j], f[i])])]

AbsR(r) == <<Abs(r[1]), r[2]>>

\* norm(g, ord=inf) < gtol
GradSmall(g) == \A j \in 1..3 : Less(AbsR(g[j]), gtol)

(***************************************************************************)
(* State.                                                                  *)
(***************************************************************************)
VARIABLES
    file,        \* the rows of the input file
    verbose,     \* the caller's verbose flag
    pc,          \* position of the program
    outcome,     \* "none", "returned" or the exception raised
    raisedIn,    \* the function that raised it
    data,        \* the mapping get_data returned
    x_data,      \* np.array([x_1_data, x_2_data])
    y_data,
    v,           \* the verbosity level handed to least_squares
    x,           \* the solver's current parameter vector
    f,           \* residual vector at x
    J,           \* Jacobian at x
    Delta2,      \* squared trust-region radius
    nfev,        \* residual evaluations
    njev,        \* Jacobian evaluations
    iteration,
    status,      \* termination_status, -1 for None
    x_new,       \* the trial point
    f_new,       \* residual vector at the trial point
    accepted,    \* actual_reduction > 0 for the last trial
    nonfinite,   \* some evaluation of this run held a non-finite value
    returned,    \* what create_model handed to its caller
    diag         \* diagnostics printed

vars == << file, verbose, pc, outcome, raisedIn, data, x_data, y_data, v, x, f,
           J, Delta2, nfev, njev, iteration, status, x_new, f_new, accepted,
           nonfinite, returned, diag >>

solverVars == << x, f, J, Delta2, nfev, njev, iteration, status, x_new, f_new,
                 accepted, nonfinite >>

NoData == [y |-> <<>>, x_1 |-> <<>>, x_2 |-> <<>>]

Init ==
    /\ file \in Files
    /\ verbose \in BOOLEAN
    /\ pc = "get_data"
    /\ outcome = "none"
    /\ raisedIn = "none"
    /\ data = NoData
    /\ x_data = << <<>>, <<>> >>
    /\ y_data = <<>>
    /\ v = 0
    /\ x = initial_guesses
    /\ f = <<>>
    /\ J = <<>>
    /\ Delta2 = [n |-> 0, e |-> 0]
    /\ nfev = 0
    /\ njev = 0
    /\ iteration = 0
    /\ status = -1
    /\ x_new = initial_guesses
    /\ f_new = <<>>
    /\ accepted = FALSE
    /\ nonfinite = FALSE
    /\ returned = <<>>
    /\ diag = <<>>

Raise(exc, where) ==
    /\ outcome' = exc
    /\ raisedIn' = where
    /\ pc' = "done"

(***************************************************************************)
(* Every operation is written as its effect on the program (the Core       *)
(* part, which reads the verbosity level only through its parameter) and   *)
(* its effect on the verbosity plumbing and the printed diagnostics.       *)
(***************************************************************************)

(***************************************************************************)
(* get_data(file_name)                                                     *)
(***************************************************************************)
Column(rows, k) == [i \in 1..Len(rows) |-> rows[i][k]]

get_dataCore ==
    /\ pc = "get_data"
    /\ IF file = <<>>
       THEN \* next(csv_reader) on a file without a header
            /\ Raise("StopIteration", "get_data")
            /\ UNCHANGED data
       ELSE LET rows == Tail(file)
            IN  IF \E i \in 1..Len(rows) : Len(rows[i]) < 3
                THEN \* row[k] on a row without field k
                     /\ Raise("IndexError", "get_data")
                     /\ UNCHANGED data
                ELSE /\ data' = [y   |-> Column(rows, 3),
                                 x_1 |-> Column(rows, 1),
                                 x_2 |-> Column(rows, 2)]
                     /\ pc' = "create_model"
                     /\ UNCHANGED << outcome, raisedIn >>
    /\ UNCHANGED << file, x_data, y_data, returned >>
    /\ UNCHANGED solverVars

get_data ==
    /\ get_dataCore
    /\ UNCHANGED << verbose, v, diag >>

(***************************************************************************)
(* create_model(data, verbose), up to the call of least_squares            *)
(***************************************************************************)
\* a level least_squares does not accept
VerboseLevelMut(flag) == IF flag THEN 3 ELSE 0

\* v = 1 if verbose else 0
VerboseLevel(flag) == IF flag THEN 1 ELSE 0

create_modelCore ==
    /\ pc = "create_model"
    /\ IF ArrayOk(data.y) /\ ArrayOk(data.x_1) /\ ArrayOk(data.x_2)
       THEN /\ y_data' = Array(data.y)
            /\ x_data' = << Array(data.x_1), Array(data.x_2) >>
            /\ pc' = "least_squares"
            /\ UNCHANGED << outcome, raisedIn >>
       ELSE \* np.array(..., dtype=np.float) on a field that is no number
            /\ Raise("ValueError", "create_model")
            /\ UNCHANGED << x_data, y_data >>
    /\ UNCHANGED << file, data, returned >>
    /\ UNCHANGED solverVars

create_model ==
    /\ create_modelCore
    /\ v' = VerboseLevel(verbose)
    /\ UNCHANGED << verbose, diag >>

(***************************************************************************)
(* least_squares(objective_function, initial_guesses, jac=jac,             *)
(*               args=(x_data, y_data), verbose=v)                         *)
(* with the defaults of the call: method 'trf' without bounds, linear      *)
(* loss, x_scale 1.  The trust-region subproblem is not computed: the      *)
(* trial point is any grid point within the radius.                        *)
(***************************************************************************)
JFinite(M) == \A i \in 1..Len(M) : AllFinite(M[i])

\* J0.shape == (m, n)
ShapeOk(M, m, n) == Len(M) = m /\ \A i \in 1..Len(M) : Len(M[i]) = n

least_squaresCore(lvl) ==
    /\ pc = "least_squares"
    /\ IF lvl \notin {0, 1, 2}
       THEN /\ Raise("ValueError_verbose", "least_squares")
            /\ UNCHANGED solverVars
       ELSE LET f0 == objective_function(initial_guesses, x_data, y_data)
                J0 == jac(initial_guesses, x_data, y_data)
            IN  /\ x' = initial_guesses
                /\ f' = f0
                /\ nfev' = 1
                /\ IF ~AllFinite(f0)
                   THEN \* "Residuals are not finite in the initial point."
                        /\ Raise("ValueError_nonfinite", "least_squares")
                        /\ nonfinite' = TRUE
                        /\ UNCHANGED << J, njev, Delta2 >>
                   ELSE /\ J' = J0
                        /\ njev' = 1
                        /\ nonfinite' = ~JFinite(J0)
                        /\ IF ShapeOk(J0, Len(f0), Len(initial_guesses))
                           THEN /\ Delta2' = [n |-> Norm2(initial_guesses, Zero3),
                                              e |-> 0]
                                /\ pc' = "trf_loop"
                                /\ UNCHANGED << outcome, raisedIn >>
                           ELSE /\ Raise("ValueError_shape", "least_squares")
                                /\ UNCHANGED Delta2
                /\ UNCHANGED << iteration, status, x_new, f_new, accepted >>
    /\ UNCHANGED << file, data, x_data, y_data, returned >>

least_squares ==
    /\ least_squaresCore(v)
    /\ UNCHANGED << verbose, v, diag >>

\* top of the loop of trf_no_bounds: the gradient test and the evaluation cap
trf_loopCore ==
    /\ pc = "trf_loop"
    /\ LET st == IF GradSmall(Grad(J, f)) THEN 1 ELSE status
       IN  /\ status' = st
           /\ IF st # -1 \/ nfev = max_nfev
              THEN pc' = "trf_return"
              ELSE pc' = "trf_inner"
    /\ accepted' = FALSE
    /\ UNCHANGED << x, f, J, Delta2, nfev, njev, iteration, x_new, f_new,
                    nonfinite >>
    /\ UNCHANGED << file, data, x_data, y_data, outcome, raisedIn, returned >>

\* verbose == 2 prints one line per iteration
trf_loop ==
    /\ trf_loopCore
    /\ diag' = IF v = 2 THEN Append(diag, "iteration") ELSE diag
    /\ UNCHANGED << verbose, v >>

\* a trial that is retried without being counted and without a smaller radius
RejectedMut(nf, D, N) == [nfev |-> nf, Delta2 |-> D]

\* a trial that is not accepted: one more evaluation, a smaller radius
Rejected(nf, D, N) == [nfev |-> nf + 1, Delta2 |-> Quarter(N, D)]

\* actual_reduction >= 0
ReducesMut(cost, cost_new) == ~Less(cost, cost_new)

\* actual_reduction > 0
Reduces(cost, cost_new) == Less(cost_new, cost)

\* one pass of "while actual_reduction <= 0 and nfev < max_nfev"
trf_innerCore ==
    /\ pc = "trf_inner"
    /\ \E xn \in Grid :
         LET N  == Norm2(xn, x)
             fn == objective_function(xn, x_data, y_data)
             rj == Rejected(nfev, Delta2, N)
         IN  /\ Fits(N, Delta2)
             /\ x_new' = xn
             /\ f_new' = fn
             /\ IF ~AllFinite(fn)
                THEN \* Delta = 0.25 * step_h_norm; continue
                     /\ nfev' = rj.nfev
                     /\ Delta2' = rj.Delta2
                     /\ accepted' = FALSE
                     /\ nonfinite' = TRUE
                ELSE IF Reduces(HalfSumSq(f), HalfSumSq(fn))
                THEN \* update_tr_radius with a ratio the model does not compute
                     /\ nfev' = nfev + 1
                     /\ Delta2' \in { Quarter(N, Delta2), Delta2 } \cup
                                    ( IF BoundHit(N, Delta2)
                                      THEN { Double(Delta2) } ELSE {} )
                     /\ accepted' = TRUE
                     /\ UNCHANGED nonfinite
                ELSE \* ratio <= 0: Delta = 0.25 * step_norm
                     /\ nfev' = rj.nfev
                     /\ Delta2' = rj.Delta2
                     /\ accepted' = FALSE
                     /\ UNCHANGED nonfinite
    /\ pc' = IF accepted' \/ nfev' >= max_nfev THEN "trf_post" ELSE "trf_inner"
    /\ UNCHANGED << x, f, J, njev, iteration, status >>
    /\ UNCHANGED << file, data, x_data, y_data, outcome, raisedIn, returned >>

trf_inner ==
    /\ trf_innerCore
    /\ UNCHANGED << verbose, v, diag >>

\* after the inner loop: move to the trial point if it reduced the cost
trf_postCore ==
    /\ pc = "trf_post"
    /\ IF accepted
       THEN /\ x' = x_new
            /\ f' = f_new
            /\ J' = jac(x_new, x_data, y_data)
            /\ njev' = njev + 1
            /\ nonfinite' = (nonfinite \/ ~JFinite(J'))
       ELSE UNCHANGED << x, f, J, njev, nonfinite >>
    /\ iteration' = iteration + 1
    /\ pc' = "trf_loop"
    /\ UNCHANGED << Delta2, nfev, status, x_new, f_new, accepted >>
    /\ UNCHANGED << file, data, x_data, y_data, outcome, raisedIn, returned >>

trf_post ==
    /\ trf_postCore
    /\ UNCHANGED << verbose, v, diag >>

\* trf returns the OptimizeResult, least_squares prints its report, and
\* create_model returns res.x
create_model_returnCore ==
    /\ pc = "trf_return"
    /\ status' = IF status = -1 THEN 0 ELSE status
    /\ returned' = x
    /\ outcome' = "returned"
    /\ pc' = "done"
    /\ UNCHANGED << x, f, J, Delta2, nfev, njev, iteration, x_new, f_new,
                    accepted, nonfinite >>
    /\ UNCHANGED << file, data, x_data, y_data, raisedIn >>

create_model_return ==
    /\ create_model_returnCore
    /\ diag' = IF v >= 1 THEN Append(diag, "termination report") ELSE diag
    /\ UNCHANGED << verbose, v >>

Next ==
    \/ get_data
    \/ create_model
    \/ least_squares
    \/ trf_loop
    \/ trf_inner
    \/ trf_post
    \/ create_model_return

\* the program seen without the verbosity plumbing, run at level lvl
NextCore(lvl) ==
    \/ get_dataCore
    \/ create_modelCore
    \/ least_squaresCore(lvl)
    \/ trf_loopCore
    \/ trf_innerCore
    \/ trf_postCore
    \/ create_model_returnCore

Spec == Init /\ [][Next]_vars

\* the program is sequential and keeps running until it returns or raises
FairSpec == Spec /\ WF_vars(Next)

(***************************************************************************)
(* Properties.                                                             *)
(***************************************************************************)
\* number of samples: the data rows of the file
nSamples == Len(file) - 1

InSolver == pc \in {"trf_loop", "trf_inner", "trf_post", "trf_return"}

\* the exceptions that report bad input data
DataError(exc) == exc \in {"StopIteration", "IndexError", "ValueError"}

\* sum-of-squares cost at parameter vector prm
Cost(prm) == HalfSumSq(objective_function(prm, x_data, y_data))

C2_EmptyDataIsDataError ==
    (file = <<Header>> /\ pc = "done")
        => (DataError(outcome) /\ nfev = 0 /\ njev = 0)

\* C3: a run stopped by the evaluation cap (status 0) still returns, and it
\* hands the caller something besides the three parameter values, which a
\* converged run does not.
C3_UnconvergedIsFlagged ==
    (pc = "done" /\ outcome = "returned")
        => ((status = 0) <=> (Len(returned) > Len(initial_guesses)))

\* C5: once get_data is over for a file with a ragged row or a field that is
\* no number, the run has ended with an exception raised by get_data;
\* create_model is never entered with such data.
BadRow(row) == Len(row) < 3 \/ \E k \in 1..3 : ~float(row[k]).ok

C5_BadRowsRaiseInLoader ==
    (file # <<>> /\ pc # "get_data"
       /\ \E i \in 2..Len(file) : BadRow(file[i]))
        => (pc = "done" /\ raisedIn = "get_data" /\ outcome # "returned")

\* C4: every step of a run is also a step of the run with the other value
\* of the verbose flag, on everything but the flag, the level and the
\* printed diagnostics; both runs start in the same state, so they pass
\* through the same parameter vectors and end in the same outcome.
C4_VerboseOnlyAddsDiagnostics ==
    [][NextCore(VerboseLevel(~verbose))]_vars

C4_Witness ==
    /\ pc = "done"
    /\ verbose
    /\ outcome = "returned"
    /\ iteration > 0
    /\ diag # <<>>

\* C6: at every grid parameter vector <<a, b, d>> that is singular for no
\* sample, row i of jac is <<q/(p - q b), q^2 a/(p - q b)^2, q>>; the first
\* and third entries are the difference quotients of model in a and d (model
\* is affine in both), the second satisfies the product rule for
\* model * (p - q b), which is affine in b; and jac does not depend on y.
Steps == { <<1, 100>>, <<-1, 10>>, <<3, 1>> }

Den(prm, p_, q_) == Sub(p_, Mul(q_, prm[2]))

Shift(prm, j, h) == [prm EXCEPT ![j] = Add(prm[j], h)]

Quot(u, w, h) == Div(Sub(u, w), h)

ExactDerivatives(prm, p_, q_, row) ==
    \A h \in Steps :
       /\ Quot(modelAt(Shift(prm, 1, h), p_, q_), modelAt(prm, p_, q_), h)
            = row[1]
       /\ Quot(modelAt(Shift(prm, 3, h), p_, q_), modelAt(prm, p_, q_), h)
            = row[3]
       /\ isfinite(modelAt(Shift(prm, 2, h), p_, q_))
            => Add(Mul(row[2], Den(prm, p_, q_)),
                   Mul(modelAt(prm, p_, q_),
                       Quot(Den(Shift(prm, 2, h), p_, q_), Den(prm, p_, q_), h)))
               = Quot(Mul(modelAt(Shift(prm, 2, h), p_, q_),
                          Den(Shift(prm, 2, h), p_, q_)),
                      Mul(modelAt(prm, p_, q_), Den(prm, p_, q_)), h)

OtherY == { [i \in 1..Len(y_data) |-> Num(0)],
            [i \in 1..Len(y_data) |-> Add(y_data[i], Num(1))] }

C6_JacobianIsExact ==
    pc \notin {"get_data", "create_model"} =>
      \A prm \in Grid :
        (\A i \in 1..Len(y_data) :
            Den(prm, x_data[1][i], x_data[2][i]) # Num(0))
        => LET Jm == jac(prm, x_data, y_data)
           IN  /\ \A i \in 1..Len(y_data) :
                    LET p_ == x_data[1][i]
                        q_ == x_data[2][i]
                        dn == Sub(p_, Mul(q_, prm[2]))
                    IN  /\ Jm[i] = << Div(q_, dn),
                                      Div(Mul(Mul(q_, q_), prm[1]), Mul(dn, dn)),
                                      q_ >>
                        /\ ExactDerivatives(prm, p_, q_, Jm[i])
               /\ \A yy \in OtherY : jac(prm, x_data, yy) = Jm
               /\ (njev > 0 /\ outcome = "none") => J = jac(x, x_data, y_data)

C6_Witness ==
    /\ pc = "trf_loop"
    /\ njev >= 2
    /\ Len(J) = 2
    /\ x[2] # initial_guesses[2]

\* C7: every residual vector the solver holds is model(param, x) - y entry
\* by entry, and the evaluations leave the arrays as create_model built them.
C7_ResidualIsModelMinusY ==
    /\ nfev > 0 =>
         /\ Len(f) = Len(y_data)
         /\ \A i \in 1..Len(y_data) :
              f[i] = Sub(model(x, x_data)[i], y_data[i])
         /\ y_data = Array(data.y)
         /\ x_data = << Array(data.x_1), Array(data.x_2) >>
    /\ nfev > 1 =>
         /\ Len(f_new) = Len(y_data)
         /\ \A i \in 1..Len(y_data) :
              f_new[i] = Sub(model(x_new, x_data)[i], y_data[i])

C7_Witness ==
    /\ pc = "trf_post"
    /\ accepted
    /\ nfev > 2
    /\ Len(f_new) = 2
    /\ f_new # f

\* C8: a run that has entered the solver ends (it returns or raises).
C8_FitTerminates == (pc = "least_squares") ~> (pc = "done")

C8_Witness ==
    /\ pc = "done"
    /\ status = 0
    /\ nfev = max_nfev
    /\ nfev > iteration + 1

C10_Shapes ==
    /\ nfev > 0 => Len(f) = nSamples
    /\ nfev > 1 => Len(f_new) = nSamples
    /\ njev > 0 => (Len(J) = nSamples /\ \A i \in 1..Len(J) : Len(J[i]) = 3)

C10_Witness ==
    /\ pc = "trf_loop"
    /\ njev >= 2
    /\ nSamples = 2
    /\ Len(J) = 2

====
